---- MODULE Spec2Model ----
(***************************************************************************)
(* A model of rx-basis: the Gaussian basis-set reader (src/io/gaussian.rs) *)
(* and the AtomicBasisSet container with its iterator                      *)
(* (src/details/atomic_basis_set.rs, angular_momentum.rs, gaussian_exp.rs).*)
(*                                                                         *)
(* Text is a sequence of one-character strings.  A parsed f64 is kept as   *)
(* an exact decimal m * 10^e (binary rounding is not modelled), or an      *)
(* infinity, or NaN.                                                       *)
(***************************************************************************)
EXTENDS Integers, Sequences, FiniteSets, TLC

(* ----------------------------- bounds --------------------------------- *)

\* Most lines an arbitrary line source yields before it ends or fails.
MaxLines == 4

\* Most add_segmented_contraction calls made directly on a set.
MaxAdds == 2

\* Most next() calls one iterator receives after it first returned None.
MaxNoneCalls == 2

(* ------------------------- program constants -------------------------- *)

I32Max == 2147483647

\* AngularMomentum's discriminants (#[repr(i8)]).
S == 0
P == 1
D == 2
F == 3
G == 4
H == 5
UnsupportedAngularMomentum == -1

AngularMomentum == {S, P, D, F, G, H, UnsupportedAngularMomentum}

Supported == {S, P, D, F, G, H}

(* ------------------------------ text ---------------------------------- *)

Digits == <<"0", "1", "2", "3", "4", "5", "6", "7", "8", "9">>

IsDigit(c) == \E i \in 1..10 : Digits[i] = c

DigitVal(c) == (CHOOSE i \in 1..10 : Digits[i] = c) - 1

\* char::is_whitespace, on the characters a line of text can hold.
IsWhitespace(c) == c \in {" ", "\t", "\r"}

\* str::starts_with
StartsWith(s, prefix) ==
    /\ Len(s) >= Len(prefix)
    /\ SubSeq(s, 1, Len(prefix)) = prefix

RECURSIVE TrimStart(_)
TrimStart(s) ==
    IF s # <<>> /\ IsWhitespace(Head(s)) THEN TrimStart(Tail(s)) ELSE s

RECURSIVE TrimEnd(_)
TrimEnd(s) ==
    IF s # <<>> /\ IsWhitespace(s[Len(s)])
    THEN TrimEnd(SubSeq(s, 1, Len(s) - 1))
    ELSE s

\* str::trim
Trim(s) == TrimEnd(TrimStart(s))

\* The first whitespace-free run of s (s starts with a non-whitespace).
RECURSIVE TakeToken(_)
TakeToken(s) ==
    IF s = <<>> \/ IsWhitespace(Head(s))
    THEN <<>>
    ELSE <<Head(s)>> \o TakeToken(Tail(s))

\* str::split_whitespace, collected: the non-empty whitespace-free runs.
RECURSIVE SplitWhitespace(_)
SplitWhitespace(s) ==
    LET t == TrimStart(s) IN
    IF t = <<>>
    THEN <<>>
    ELSE LET tok == TakeToken(t) IN
         <<tok>> \o SplitWhitespace(SubSeq(t, Len(tok) + 1, Len(t)))

\* char::to_ascii_lowercase on the letters the float grammar names.
Lower(c) ==
    CASE c = "I" -> "i" [] c = "N" -> "n" [] c = "F" -> "f" [] c = "A" -> "a"
      [] c = "T" -> "t" [] c = "Y" -> "y" [] c = "E" -> "e" [] OTHER -> c

LowerAll(s) == [i \in 1..Len(s) |-> Lower(s[i])]

(* --------------------------- str::parse ------------------------------- *)

ParseFail == [ok |-> FALSE, val |-> 0]

\* Largest magnitude acc may have so that acc*10 + d stays an i32; the
\* negative range reaches one further than the positive.
I32Limit(d, negative) ==
    IF negative /\ d # 0 THEN (I32Max - (d - 1)) \div 10 ELSE (I32Max - d) \div 10

\* Accumulates the digits of s from position i on acc (a magnitude, kept
\* negated for a negative number), as i32::from_str does with its checked
\* multiply and add.
RECURSIVE I32Digits(_, _, _, _)
I32Digits(s, i, acc, negative) ==
    IF i > Len(s)
    THEN [ok |-> TRUE, val |-> acc]
    ELSE IF ~IsDigit(s[i])
    THEN ParseFail
    ELSE LET d == DigitVal(s[i]) IN
         IF negative
         THEN IF -acc > I32Limit(d, TRUE)
              THEN ParseFail
              ELSE I32Digits(s, i + 1, acc * 10 - d, negative)
         ELSE IF acc > I32Limit(d, FALSE)
              THEN ParseFail
              ELSE I32Digits(s, i + 1, acc * 10 + d, negative)

\* str::parse::<i32>: an optional sign and at least one digit, in range.
ParseI32(s) ==
    IF s = <<>>
    THEN ParseFail
    ELSE IF Head(s) \in {"+", "-"}
    THEN IF Len(s) = 1 THEN ParseFail ELSE I32Digits(s, 2, 0, Head(s) = "-")
    ELSE I32Digits(s, 1, 0, FALSE)

\* The f64 m * 10^e, written without trailing zeros in m.
RECURSIVE Normalize(_, _)
Normalize(m, e) ==
    IF m = 0 THEN [class |-> "finite", m |-> 0, e |-> 0]
    ELSE IF m % 10 = 0 THEN Normalize(m \div 10, e + 1)
    ELSE [class |-> "finite", m |-> m, e |-> e]

Infinity(sign) == [class |-> "infinite", m |-> sign, e |-> 0]

NaN == [class |-> "nan", m |-> 0, e |-> 0]

\* The end of the run of digits of s that starts at i (i itself if none).
RECURSIVE DigitsEnd(_, _)
DigitsEnd(s, i) ==
    IF i <= Len(s) /\ IsDigit(s[i]) THEN DigitsEnd(s, i + 1) ELSE i

\* The number the digits s[i..j-1] spell, continuing acc.
RECURSIVE DigitsValue(_, _, _, _)
DigitsValue(s, i, j, acc) ==
    IF i >= j THEN acc ELSE DigitsValue(s, i + 1, j, acc * 10 + DigitVal(s[i]))

RECURSIVE Pow10(_)
Pow10(n) == IF n = 0 THEN 1 ELSE 10 * Pow10(n - 1)

\* The number the digits s[i..] spell, as <<m, z>> for m * 10^z with the
\* trailing zeros counted in z, continuing <<m, z>>.
RECURSIVE Mantissa(_, _, _, _)
Mantissa(s, i, m, z) ==
    IF i > Len(s) THEN <<m, z>>
    ELSE LET d == DigitVal(s[i]) IN
         IF d = 0
         THEN Mantissa(s, i + 1, m, IF m = 0 THEN 0 ELSE z + 1)
         ELSE Mantissa(s, i + 1, m * Pow10(z + 1) + d, 0)

\* The unsigned decimal part of f64::from_str:
\* digits [ '.' digits ] [ ('e'|'E') [sign] digits ], with a digit in the
\* mantissa.
ParseDecimal(s, sign) ==
    LET intEnd  == DigitsEnd(s, 1)
        hasDot  == intEnd <= Len(s) /\ s[intEnd] = "."
        fracBeg == IF hasDot THEN intEnd + 1 ELSE intEnd
        fracEnd == IF hasDot THEN DigitsEnd(s, fracBeg) ELSE intEnd
        nInt    == intEnd - 1
        nFrac   == fracEnd - fracBeg
        mant    == Mantissa(SubSeq(s, 1, intEnd - 1) \o SubSeq(s, fracBeg, fracEnd - 1),
                            1, 0, 0)
        hasExp  == fracEnd <= Len(s) /\ s[fracEnd] \in {"e", "E"}
        expSign == hasExp /\ fracEnd + 1 <= Len(s) /\ s[fracEnd + 1] \in {"+", "-"}
        expBeg  == IF expSign THEN fracEnd + 2 ELSE fracEnd + 1
        expEnd  == IF hasExp THEN DigitsEnd(s, expBeg) ELSE fracEnd
        expVal  == IF hasExp THEN DigitsValue(s, expBeg, expEnd, 0) ELSE 0
        exp     == IF expSign /\ s[fracEnd + 1] = "-" THEN -expVal ELSE expVal
    IN
    IF nInt + nFrac = 0 THEN ParseFail
    ELSE IF hasExp /\ (expEnd = expBeg \/ expEnd <= Len(s)) THEN ParseFail
    ELSE IF ~hasExp /\ fracEnd <= Len(s) THEN ParseFail
    ELSE [ok |-> TRUE, val |-> Normalize(sign * mant[1], mant[2] + exp - nFrac)]

\* str::parse::<f64>
ParseF64(s) ==
    LET negative == s # <<>> /\ Head(s) = "-"
        signed   == s # <<>> /\ Head(s) \in {"+", "-"}
        body     == IF signed THEN Tail(s) ELSE s
        low      == LowerAll(body)
    IN
    IF body = <<>> THEN ParseFail
    ELSE IF low \in {<<"i", "n", "f">>, <<"i", "n", "f", "i", "n", "i", "t", "y">>}
    THEN [ok |-> TRUE, val |-> Infinity(IF negative THEN -1 ELSE 1)]
    ELSE IF low = <<"n", "a", "n">>
    THEN [ok |-> TRUE, val |-> NaN]
    ELSE ParseDecimal(body, IF negative THEN -1 ELSE 1)

(* ------------------------- AngularMomentum ---------------------------- *)

\* From<char> matching the upper-case letters only.
FromCharUpperCase(ch) ==
    CASE ch = "S" -> S
      [] ch = "P" -> P
      [] ch = "D" -> D
      [] ch = "F" -> F
      [] ch = "G" -> G
      [] ch = "H" -> H
      [] OTHER -> UnsupportedAngularMomentum

\* impl From<char> for AngularMomentum
FromChar(ch) ==
    CASE ch \in {"S", "s"} -> S
      [] ch \in {"P", "p"} -> P
      [] ch \in {"D", "d"} -> D
      [] ch \in {"F", "f"} -> F
      [] ch \in {"G", "g"} -> G
      [] ch \in {"H", "h"} -> H
      [] OTHER -> UnsupportedAngularMomentum

\* impl From<usize> for AngularMomentum
FromUsize(us) ==
    CASE us = 0 -> S
      [] us = 1 -> P
      [] us = 2 -> D
      [] us = 3 -> F
      [] us = 4 -> G
      [] us = 5 -> H
      [] OTHER -> UnsupportedAngularMomentum

\* `angular_momentum as usize`: the i8 discriminant sign-extended to the
\* width of usize.  `ones` says that the bits above the low byte are all
\* set (the value is 2^64 - 256 + low), `low` is the low byte.
AsUsize(angular_momentum) ==
    IF angular_momentum >= 0
    THEN [ones |-> FALSE, low |-> angular_momentum]
    ELSE [ones |-> TRUE, low |-> angular_momentum + 256]

(* ------------------ GaussianPrimitive, SegmentedContraction ----------- *)

\* GaussianPrimitive::new
GaussianPrimitive(coefficient, exponental) ==
    [coefficient |-> coefficient, exponental |-> exponental]

\* SegmentedContraction::new
NewSegmentedContraction == <<>>

\* SegmentedContraction::add
SegmentedContractionAdd(sc, coefficient, exponental) ==
    Append(sc, GaussianPrimitive(coefficient, exponental))

\* SegmentedContraction::get_num_primitives
GetNumPrimitives(sc) == Len(sc)

(* --------------------------- AtomicBasisSet --------------------------- *)

\* AtomicBasisSet::new
NewAtomicBasisSet == <<>>

RECURSIVE SumLens(_, _)
SumLens(seqs, i) ==
    IF i > Len(seqs) THEN 0 ELSE Len(seqs[i]) + SumLens(seqs, i + 1)

\* AtomicBasisSet::get_num_contracted_functions
GetNumContractedFunctions(set) == SumLens(set, 1)

RECURSIVE SumPrimitives(_, _)
SumPrimitives(set, i) ==
    IF i > Len(set)
    THEN 0
    ELSE SumLens(set[i], 1) + SumPrimitives(set, i + 1)

\* AtomicBasisSet::get_num_gaussian_primitives
GetNumGaussianPrimitives(set) == SumPrimitives(set, 1)

\* get_highest_angular_momentum converting the length, not length - 1.
GetHighestAngularMomentumOfLen(set) ==
    IF Len(set) = 0
    THEN UnsupportedAngularMomentum
    ELSE FromUsize(Len(set))

\* AtomicBasisSet::get_highest_angular_momentum
GetHighestAngularMomentum(set) ==
    IF Len(set) = 0
    THEN UnsupportedAngularMomentum
    ELSE FromUsize(Len(set) - 1)

\* The loop `while self.0.len() <= angular_momentum_num { push(vec![]) }`
\* for a number below the length a Vec can reach.
RECURSIVE GrowSlots(_, _)
GrowSlots(slots, angular_momentum_num) ==
    IF Len(slots) <= angular_momentum_num
    THEN GrowSlots(Append(slots, <<>>), angular_momentum_num)
    ELSE slots

\* add_segmented_contraction with the level's list replaced by the new
\* contraction instead of extended by it.
AddSegmentedContractionOverwrite(set, angular_momentum, segmented_contraction) ==
    LET angular_momentum_num == AsUsize(angular_momentum) IN
    IF angular_momentum_num.ones
    THEN [returns |-> FALSE, set |-> set]
    ELSE LET grown == GrowSlots(set, angular_momentum_num.low) IN
         [returns |-> TRUE,
          set |-> [grown EXCEPT ![angular_momentum_num.low + 1] =
                       <<segmented_contraction>>]]

\* add_segmented_contraction putting the new contraction first in its
\* level's list.
AddSegmentedContractionFirst(set, angular_momentum, segmented_contraction) ==
    LET angular_momentum_num == AsUsize(angular_momentum) IN
    IF angular_momentum_num.ones
    THEN [returns |-> FALSE, set |-> set]
    ELSE LET grown == GrowSlots(set, angular_momentum_num.low) IN
         [returns |-> TRUE,
          set |-> [grown EXCEPT ![angular_momentum_num.low + 1] =
                       <<segmented_contraction>> \o @]]

\* AtomicBasisSet::add_segmented_contraction.  A Vec holds fewer than
\* 2^63 / 24 slots, so with a number whose upper bits are all set the loop's
\* condition never turns false: the call pushes slots until the allocation
\* fails and does not return (returns = FALSE).
AddSegmentedContraction(set, angular_momentum, segmented_contraction) ==
    LET angular_momentum_num == AsUsize(angular_momentum) IN
    IF angular_momentum_num.ones
    THEN [returns |-> FALSE, set |-> set]
    ELSE LET grown == GrowSlots(set, angular_momentum_num.low) IN
         [returns |-> TRUE,
          set |-> [grown EXCEPT ![angular_momentum_num.low + 1] =
                       Append(@, segmented_contraction)]]

(* ----------------- SegmentedContractionIntoIterator ------------------- *)

NoItem == [some |-> FALSE, momentum |-> UnsupportedAngularMomentum, contraction |-> <<>>]

SomeItem(momentum, contraction) ==
    [some |-> TRUE, momentum |-> momentum, contraction |-> contraction]

\* SegmentedContractionIntoIterator::new
NewIterator == [angular_momentum_index |-> 0, segmented_contraction_index |-> 0]

\* next() without `self.segmented_contraction_index = 0` on the step to
\* the next level.
RECURSIVE IteratorNextNoReset(_, _)
IteratorNextNoReset(set, it) ==
    IF it.angular_momentum_index < Len(set)
    THEN LET scgtos == set[it.angular_momentum_index + 1] IN
         IF it.segmented_contraction_index < Len(scgtos)
         THEN [it |-> [it EXCEPT !.segmented_contraction_index = @ + 1],
               result |-> SomeItem(FromUsize(it.angular_momentum_index),
                                   scgtos[it.segmented_contraction_index + 1])]
         ELSE IteratorNextNoReset(set,
                  [it EXCEPT !.angular_momentum_index = @ + 1])
    ELSE [it |-> it, result |-> NoItem]

\* SegmentedContractionIntoIterator::next: the iterator after the call and
\* the item returned.
RECURSIVE IteratorNext(_, _)
IteratorNext(set, it) ==
    IF it.angular_momentum_index < Len(set)
    THEN LET scgtos == set[it.angular_momentum_index + 1] IN
         IF it.segmented_contraction_index < Len(scgtos)
         THEN [it |-> [it EXCEPT !.segmented_contraction_index = @ + 1],
               result |-> SomeItem(FromUsize(it.angular_momentum_index),
                                   scgtos[it.segmented_contraction_index + 1])]
         ELSE IteratorNext(set,
                  [angular_momentum_index |-> it.angular_momentum_index + 1,
                   segmented_contraction_index |-> 0])
    ELSE [it |-> it, result |-> NoItem]

\* The items a loop `for item in &set` sees: next() until it returns None.
RECURSIVE Drain(_, _)
Drain(set, it) ==
    LET step == IteratorNext(set, it) IN
    IF step.result.some
    THEN <<step.result>> \o Drain(set, step.it)
    ELSE <<>>

\* (&AtomicBasisSet)::into_iter, run to its end.
IntoIterAll(set) == Drain(set, NewIterator)

(* --------------------------- io::gaussian ----------------------------- *)

\* Option<String>
None == [some |-> FALSE, line |-> <<>>]

Some(line) == [some |-> TRUE, line |-> line]

\* Result<_, Box<dyn Error>>
Ok(val) == [ok |-> TRUE, val |-> val, error |-> ""]

Err(error) == [ok |-> FALSE, val |-> 0, error |-> error]

\* What stream.next() gives: Some(Ok(line)), Some(Err(_)) or None.
OkLine(text) == [tag |-> "line", text |-> text]

IoError == [tag |-> "error", text |-> <<>>]

EndOfStream == [tag |-> "end", text |-> <<>>]

\* read_single_basis_set_line without the test for the sentinel.
ReadSingleBasisSetLineNoSentinel(item) ==
    CASE item.tag = "end" -> [turn |-> "return", result |-> Ok(None)]
      [] item.tag = "error" -> [turn |-> "return", result |-> Err("io error")]
      [] OTHER ->
           IF StartsWith(item.text, <<"!">>) \/ Len(Trim(item.text)) = 0
           THEN [turn |-> "continue", result |-> Ok(None)]
           ELSE [turn |-> "return", result |-> Ok(Some(item.text))]

\* read_single_basis_set_line without the test for a comment.
ReadSingleBasisSetLineNoComment(item) ==
    CASE item.tag = "end" -> [turn |-> "return", result |-> Ok(None)]
      [] item.tag = "error" -> [turn |-> "return", result |-> Err("io error")]
      [] OTHER ->
           IF Len(Trim(item.text)) = 0
           THEN [turn |-> "continue", result |-> Ok(None)]
           ELSE IF StartsWith(item.text, <<"*", "*", "*", "*">>)
           THEN [turn |-> "return", result |-> Ok(None)]
           ELSE [turn |-> "return", result |-> Ok(Some(item.text))]

\* read_single_basis_set_line going on to the next line after a failed
\* read.
ReadSingleBasisSetLineSkipError(item) ==
    CASE item.tag = "end" -> [turn |-> "return", result |-> Ok(None)]
      [] item.tag = "error" -> [turn |-> "continue", result |-> Ok(None)]
      [] OTHER ->
           IF StartsWith(item.text, <<"!">>) \/ Len(Trim(item.text)) = 0
           THEN [turn |-> "continue", result |-> Ok(None)]
           ELSE IF StartsWith(item.text, <<"*", "*", "*", "*">>)
           THEN [turn |-> "return", result |-> Ok(None)]
           ELSE [turn |-> "return", result |-> Ok(Some(item.text))]

\* read_single_basis_set_line going on to the next line after the
\* sentinel.
ReadSingleBasisSetLineSkipSentinel(item) ==
    CASE item.tag = "end" -> [turn |-> "return", result |-> Ok(None)]
      [] item.tag = "error" -> [turn |-> "return", result |-> Err("io error")]
      [] OTHER ->
           IF StartsWith(item.text, <<"!">>) \/ Len(Trim(item.text)) = 0
           THEN [turn |-> "continue", result |-> Ok(None)]
           ELSE IF StartsWith(item.text, <<"*", "*", "*", "*">>)
           THEN [turn |-> "continue", result |-> Ok(None)]
           ELSE [turn |-> "return", result |-> Ok(Some(item.text))]

\* read_single_basis_set_line testing the line as it is, untrimmed, for
\* emptiness.
ReadSingleBasisSetLineNoTrim(item) ==
    CASE item.tag = "end" -> [turn |-> "return", result |-> Ok(None)]
      [] item.tag = "error" -> [turn |-> "return", result |-> Err("io error")]
      [] OTHER ->
           IF StartsWith(item.text, <<"!">>) \/ Len(item.text) = 0
           THEN [turn |-> "continue", result |-> Ok(None)]
           ELSE IF StartsWith(item.text, <<"*", "*", "*", "*">>)
           THEN [turn |-> "return", result |-> Ok(None)]
           ELSE [turn |-> "return", result |-> Ok(Some(item.text))]

\* One turn of the loop of read_single_basis_set_line on the item
\* stream.next() gave: go on with the next item ("continue"), or return.
ReadSingleBasisSetLine(item) ==
    CASE item.tag = "end" -> [turn |-> "return", result |-> Ok(None)]
      [] item.tag = "error" -> [turn |-> "return", result |-> Err("io error")]
      [] OTHER ->
           IF StartsWith(item.text, <<"!">>) \/ Len(Trim(item.text)) = 0
           THEN [turn |-> "continue", result |-> Ok(None)]
           ELSE IF StartsWith(item.text, <<"*", "*", "*", "*">>)
           THEN [turn |-> "return", result |-> Ok(None)]
           ELSE [turn |-> "return", result |-> Ok(Some(item.text))]

\* BasisSetAssignmentType
Atom(label) == [type |-> "Atom", label |-> label, index |-> 0]

ParticleIndex(index) == [type |-> "ParticleIndex", label |-> <<>>, index |-> index]

NoAssignment == [type |-> "none", label |-> <<>>, index |-> 0]

\* parse_basis_set_first_line reading the last token of the line.
ParseBasisSetFirstLineLastToken(first_line) ==
    IF ~first_line.some
    THEN Err("Bad basis set")
    ELSE LET split == SplitWhitespace(first_line.line) IN
         IF split = <<>>
         THEN Err("Expect atom/particle index")
         ELSE LET value == split[Len(split)]
                  particle_index == ParseI32(value)
              IN IF particle_index.ok
                 THEN Ok(ParticleIndex(particle_index.val))
                 ELSE Ok(Atom(value))

\* parse_basis_set_first_line
ParseBasisSetFirstLine(first_line) ==
    IF ~first_line.some
    THEN Err("Bad basis set")
    ELSE LET split == SplitWhitespace(first_line.line) IN
         IF split = <<>>
         THEN Err("Expect atom/particle index")
         ELSE LET value == split[1]
                  particle_index == ParseI32(value)
              IN IF particle_index.ok
                 THEN Ok(ParticleIndex(particle_index.val))
                 ELSE Ok(Atom(value))

NoDeclaration == [angular_momentum |-> <<>>, num_gaussian_primitives |-> 0]

\* parse_cgto_first_line taking a missing count for zero.
ParseCgtoFirstLineDefaultCount(line) ==
    IF ~line.some
    THEN Err("Expecting CGTO declaration")
    ELSE LET split == SplitWhitespace(line.line) IN
         IF split = <<>>
         THEN Err("Expecting angular momentum and number of Gaussian primitives")
         ELSE IF Len(split) < 2
         THEN Ok([angular_momentum |-> split[1], num_gaussian_primitives |-> 0])
         ELSE LET num_gaussian_primitives == ParseI32(split[2]) IN
              IF num_gaussian_primitives.ok
              THEN Ok([angular_momentum |-> split[1],
                       num_gaussian_primitives |-> num_gaussian_primitives.val])
              ELSE Err("ParseIntError")

\* parse_cgto_first_line parsing the count as an unsigned number.
ParseCgtoFirstLineUnsigned(line) ==
    IF ~line.some
    THEN Err("Expecting CGTO declaration")
    ELSE LET split == SplitWhitespace(line.line) IN
         IF split = <<>>
         THEN Err("Expecting angular momentum and number of Gaussian primitives")
         ELSE IF Len(split) < 2
         THEN Err("Bad CGTO declaration")
         ELSE LET num_gaussian_primitives == ParseI32(split[2]) IN
              IF num_gaussian_primitives.ok /\ num_gaussian_primitives.val >= 0
              THEN Ok([angular_momentum |-> split[1],
                       num_gaussian_primitives |-> num_gaussian_primitives.val])
              ELSE Err("ParseIntError")

\* parse_cgto_first_line
ParseCgtoFirstLine(line) ==
    IF ~line.some
    THEN Err("Expecting CGTO declaration")
    ELSE LET split == SplitWhitespace(line.line) IN
         IF split = <<>>
         THEN Err("Expecting angular momentum and number of Gaussian primitives")
         ELSE IF Len(split) < 2
         THEN Err("Bad CGTO declaration")
         ELSE LET num_gaussian_primitives == ParseI32(split[2]) IN
              IF num_gaussian_primitives.ok
              THEN Ok([angular_momentum |-> split[1],
                       num_gaussian_primitives |-> num_gaussian_primitives.val])
              ELSE Err("ParseIntError")

\* parse_floats dropping the tokens that are no floats (a filter_map).
ParseFloatsSkipBad(line) ==
    IF ~line.some
    THEN Err("Expecting line of floats")
    ELSE LET split == SelectSeq(SplitWhitespace(line.line),
                                LAMBDA token : ParseF64(token).ok)
         IN Ok([i \in 1..Len(split) |-> ParseF64(split[i]).val])

\* parse_floats taking a missing line for a line without numbers.
ParseFloatsNoneIsEmpty(line) ==
    IF ~line.some
    THEN Ok(<<>>)
    ELSE LET split == SplitWhitespace(line.line) IN
         IF \A i \in 1..Len(split) : ParseF64(split[i]).ok
         THEN Ok([i \in 1..Len(split) |-> ParseF64(split[i]).val])
         ELSE Err("invalid float literal")

\* parse_floats
ParseFloats(line) ==
    IF ~line.some
    THEN Err("Expecting line of floats")
    ELSE LET split == SplitWhitespace(line.line) IN
         IF \A i \in 1..Len(split) : ParseF64(split[i]).ok
         THEN Ok([i \in 1..Len(split) |-> ParseF64(split[i]).val])
         ELSE Err("invalid float literal")

\* The contraction built from the first exponent column for every letter.
BuildContractionFirstColumn(data, index) ==
    [g \in 1..Len(data) |-> GaussianPrimitive(data[g][1], data[g][2])]

\* The contraction add_basis_set_cgto builds for the exponent column
\* `index` (0-based, as in the code): data[g][0] and data[g][index] of
\* every line g.
BuildContraction(data, index) ==
    [g \in 1..Len(data) |-> GaussianPrimitive(data[g][1], data[g][index + 1])]

\* add_basis_set_cgto from the letter at position i (1-based) on; `index`
\* of the code is i.  data[g][index] on a line of at most `index` numbers
\* is an index out of bounds: the call panics.
RECURSIVE AddBasisSetCgtoFrom(_, _, _, _)
AddBasisSetCgtoFrom(basis_set, angular_momentum_string, data, i) ==
    IF i > Len(angular_momentum_string)
    THEN [end |-> "return", basis_set |-> basis_set]
    ELSE IF \E g \in 1..Len(data) : Len(data[g]) <= i
    THEN [end |-> "panic", basis_set |-> basis_set]
    ELSE LET call == AddSegmentedContraction(basis_set,
                         FromChar(angular_momentum_string[i]),
                         BuildContraction(data, i))
         IN IF ~call.returns
            THEN [end |-> "no return", basis_set |-> basis_set]
            ELSE AddBasisSetCgtoFrom(call.set, angular_momentum_string, data, i + 1)

\* add_basis_set_cgto stopping after the first letter of the code.
AddBasisSetCgtoFirstLetter(basis_set, angular_momentum_string, data) ==
    AddBasisSetCgtoFrom(basis_set, SubSeq(angular_momentum_string, 1, 1), data, 1)

\* add_basis_set_cgto
AddBasisSetCgto(basis_set, angular_momentum_string, data) ==
    AddBasisSetCgtoFrom(basis_set, angular_momentum_string, data, 1)

(* ----------------------------- fixtures ------------------------------- *)

\* The lines Cursor::new(CARBON_BASIS_SET).lines() yields.
CARBON_BASIS_SET ==
    <<
      <<>>,
      <<>>,
      <<"!", "-", "-", "-", "-", "-", "-", "-", "-", "-", "-", "-", "-", "-", "-", "-", 
         "-", "-", "-", "-", "-", "-", "-", "-", "-", "-", "-", "-", "-", "-", "-", "-", 
         "-", "-", "-", "-", "-", "-", "-", "-", "-", "-", "-", "-", "-", "-", "-", "-", 
         "-", "-", "-", "-", "-", "-", "-", "-", "-", "-", "-", "-", "-", "-", "-", "-", 
         "-", "-", "-", "-", "-", "-", "-">>,
      <<"!", " ", "B", "a", "s", "i", "s", " ", "S", "e", "t", " ", "E", "x", "c", "h", 
         "a", "n", "g", "e">>,
      <<"!", " ", "V", "e", "r", "s", "i", "o", "n", " ", "v", "0", ".", "9">>,
      <<"!", " ", "h", "t", "t", "p", "s", ":", "/", "/", "w", "w", "w", ".", "b", "a", 
         "s", "i", "s", "s", "e", "t", "e", "x", "c", "h", "a", "n", "g", "e", ".", "o", 
         "r", "g">>,
      <<"!", "-", "-", "-", "-", "-", "-", "-", "-", "-", "-", "-", "-", "-", "-", "-", 
         "-", "-", "-", "-", "-", "-", "-", "-", "-", "-", "-", "-", "-", "-", "-", "-", 
         "-", "-", "-", "-", "-", "-", "-", "-", "-", "-", "-", "-", "-", "-", "-", "-", 
         "-", "-", "-", "-", "-", "-", "-", "-", "-", "-", "-", "-", "-", "-", "-", "-", 
         "-", "-", "-", "-", "-", "-", "-">>,
      <<"!", " ", " ", " ", "B", "a", "s", "i", "s", " ", "s", "e", "t", ":", " ", "6", 
         "-", "3", "1", "1", "G">>,
      <<"!", " ", "D", "e", "s", "c", "r", "i", "p", "t", "i", "o", "n", ":", " ", "V", 
         "T", "Z", " ", "V", "a", "l", "e", "n", "c", "e", " ", "T", "r", "i", "p", "l", 
         "e", " ", "Z", "e", "t", "a", ":", " ", "3", " ", "F", "u", "n", "c", "t", ".", 
         "'", "s", "/", "V", "a", "l", "e", "n", "c", "e", " ", "A", "O">>,
      <<"!", " ", " ", " ", " ", " ", " ", " ", " ", "R", "o", "l", "e", ":", " ", "o", 
         "r", "b", "i", "t", "a", "l">>,
      <<"!", " ", " ", " ", " ", " ", "V", "e", "r", "s", "i", "o", "n", ":", " ", "0", 
         " ", " ", "(", "D", "a", "t", "a", " ", "f", "r", "o", "m", " ", "t", "h", "e", 
         " ", "O", "r", "i", "g", "i", "n", "a", "l", " ", "B", "a", "s", "i", "s", " ", 
         "S", "e", "t", " ", "E", "x", "c", "h", "a", "n", "g", "e", ")">>,
      <<"!", "-", "-", "-", "-", "-", "-", "-", "-", "-", "-", "-", "-", "-", "-", "-", 
         "-", "-", "-", "-", "-", "-", "-", "-", "-", "-", "-", "-", "-", "-", "-", "-", 
         "-", "-", "-", "-", "-", "-", "-", "-", "-", "-", "-", "-", "-", "-", "-", "-", 
         "-", "-", "-", "-", "-", "-", "-", "-", "-", "-", "-", "-", "-", "-", "-", "-", 
         "-", "-", "-", "-", "-", "-", "-">>,
      <<>>,
      <<>>,
      <<"C", " ", " ", " ", " ", " ", "0">>,
      <<"S", " ", " ", " ", " ", "6", " ", " ", " ", "1", ".", "0", "0">>,
      <<" ", " ", " ", "4", "5", "6", "3", ".", "2", "4", "0", " ", " ", " ", " ", " ", 
         " ", " ", " ", " ", " ", " ", " ", " ", " ", " ", " ", " ", " ", "0", ".", "0", 
         "0", "1", "9", "6", "6", "6", "5">>,
      <<" ", " ", " ", " ", "6", "8", "2", ".", "0", "2", "4", "0", " ", " ", " ", " ", 
         " ", " ", " ", " ", " ", " ", " ", " ", " ", " ", " ", " ", " ", "0", ".", "0", 
         "1", "5", "2", "3", "0", "6">>,
      <<" ", " ", " ", " ", "1", "5", "4", ".", "9", "7", "3", "0", " ", " ", " ", " ", 
         " ", " ", " ", " ", " ", " ", " ", " ", " ", " ", " ", " ", " ", "0", ".", "0", 
         "7", "6", "1", "2", "6", "9">>,
      <<" ", " ", " ", " ", " ", "4", "4", ".", "4", "5", "5", "3", "0", " ", " ", " ", 
         " ", " ", " ", " ", " ", " ", " ", " ", " ", " ", " ", " ", " ", "0", ".", "2", 
         "6", "0", "8", "0", "1", "0">>,
      <<" ", " ", " ", " ", " ", "1", "3", ".", "0", "2", "9", "0", "0", " ", " ", " ", 
         " ", " ", " ", " ", " ", " ", " ", " ", " ", " ", " ", " ", " ", "0", ".", "6", 
         "1", "6", "4", "6", "2", "0">>,
      <<" ", " ", " ", " ", " ", " ", "1", ".", "8", "2", "7", "7", "3", "0", " ", " ", 
         " ", " ", " ", " ", " ", " ", " ", " ", " ", " ", " ", " ", " ", "0", ".", "2", 
         "2", "1", "0", "0", "6", "0">>,
      <<"S", "P", " ", " ", " ", "3", " ", " ", " ", "1", ".", "0", "0">>,
      <<" ", " ", " ", " ", " ", "2", "0", ".", "9", "6", "4", "2", "0", " ", " ", " ", 
         " ", " ", " ", " ", " ", " ", " ", " ", " ", " ", " ", " ", " ", "0", ".", "1", 
         "1", "4", "6", "6", "0", " ", " ", " ", " ", " ", " ", " ", " ", " ", " ", " ", 
         " ", " ", " ", " ", "0", ".", "0", "4", "0", "2", "4", "8", "7">>,
      <<" ", " ", " ", " ", " ", " ", "4", ".", "8", "0", "3", "3", "1", "0", " ", " ", 
         " ", " ", " ", " ", " ", " ", " ", " ", " ", " ", " ", " ", " ", "0", ".", "9", 
         "1", "9", "9", "9", "9", " ", " ", " ", " ", " ", " ", " ", " ", " ", " ", " ", 
         " ", " ", " ", " ", "0", ".", "2", "3", "7", "5", "9", "4">>,
      <<" ", " ", " ", " ", " ", " ", "1", ".", "4", "5", "9", "3", "3", "0", " ", " ", 
         " ", " ", " ", " ", " ", " ", " ", " ", " ", " ", " ", " ", "-", "0", ".", "0", 
         "0", "3", "0", "3", "0", "6", "8", " ", " ", " ", " ", " ", " ", " ", " ", " ", 
         " ", " ", " ", " ", "0", ".", "8", "1", "5", "8", "5", "4">>,
      <<"S", "P", " ", " ", " ", "1", " ", " ", " ", "1", ".", "0", "0">>,
      <<" ", " ", " ", " ", " ", " ", "0", ".", "4", "8", "3", "4", "5", "6", "0", " ", 
         " ", " ", " ", " ", " ", " ", " ", " ", " ", " ", " ", " ", " ", "1", ".", "0", 
         "0", "0", "0", "0", "0", " ", " ", " ", " ", " ", " ", " ", " ", " ", " ", " ", 
         " ", " ", " ", " ", "1", ".", "0", "0", "0", "0", "0", "0">>,
      <<"S", "P", " ", " ", " ", "1", " ", " ", " ", "1", ".", "0", "0">>,
      <<" ", " ", " ", " ", " ", " ", "0", ".", "1", "4", "5", "5", "8", "5", "0", " ", 
         " ", " ", " ", " ", " ", " ", " ", " ", " ", " ", " ", " ", " ", "1", ".", "0", 
         "0", "0", "0", "0", "0", " ", " ", " ", " ", " ", " ", " ", " ", " ", " ", " ", 
         " ", " ", " ", " ", "1", ".", "0", "0", "0", "0", "0", "0">>,
      <<"*", "*", "*", "*">>
    >>

\* The lines an arbitrary line source draws from.
LineBlank == <<" ", " ">>

LineComment == <<"!", "c">>

LineSentinel == <<"*", "*", "*", "*">>

LineC0 == <<"C", " ", "0">>

Line10 == <<"1", " ", "0">>

LineS1 == <<"S", " ", "1">>

LineSP2 == <<"S", "P", " ", "2">>

LineS0 == <<"S", " ", "0">>

LineNegative == <<"p", "S", " ", "-", "1">>

LineT1 == <<"T", " ", "1">>

LineS == <<" ", "S", " ">>

LineFloats == <<"1", ".", "5", " ", "2", ".", "5", " ", "3">>

LineFloatsX == <<"1", " ", "0", " ", "x">>

LineBig == <<"3", "0", "0", "0", "0", "0", "0", "0", "0", "0", " ", "1">>

AnyLines ==
    {LineBlank, LineComment, LineSentinel, LineC0, Line10,
     LineS1, LineSP2, LineS0, LineNegative, LineT1,
     LineS, LineFloats, LineFloatsX, LineBig}

\* Contractions a caller of add_segmented_contraction passes.
SampleContractions ==
    {NewSegmentedContraction,
     SegmentedContractionAdd(NewSegmentedContraction,
                             Normalize(1, 0), Normalize(2, 0)),
     SegmentedContractionAdd(
         SegmentedContractionAdd(NewSegmentedContraction,
                                 Normalize(1, 0), Normalize(2, 0)),
         Normalize(3, 0), Normalize(4, 0))}

\* The iterators a caller holds on one set.
IterIds == {"first", "second"}

(* ------------------------------ state --------------------------------- *)

VARIABLES
    stream,                     \* the line source handed to read_basis_set
    consumed,                   \* the items stream.next() has given so far
    pc,                         \* read_basis_set's position: the line it reads next
    basis_set_assignment_type,  \* read_basis_set's local
    cgto_declaration,           \* read_basis_set's local
    basis_set_data,             \* read_basis_set's local
    basis_set,                  \* the AtomicBasisSet (read_basis_set's local, or the caller's)
    outcome,                    \* how the call ended, and what it returned
    added,                      \* the add_segmented_contraction calls a caller made, in order
    iters,                      \* the caller's iterators on basis_set
    conversion                  \* a caller's AngularMomentum::from calls: arguments, results

vars == <<stream, consumed, pc, basis_set_assignment_type, cgto_declaration,
          basis_set_data, basis_set, outcome, added, iters,
          conversion>>

parserVars == <<stream, consumed, pc, basis_set_assignment_type,
                cgto_declaration, basis_set_data>>

\* outcome.end: "running"; "Ok" and "Err" (read_basis_set returned);
\* "panic" (it unwound); "no return" (a call never came back).
Running == [end |-> "running", assignment |-> NoAssignment,
            basis_set |-> NewAtomicBasisSet, error |-> ""]

ReturnOk(assignment, set) ==
    [end |-> "Ok", assignment |-> assignment, basis_set |-> set, error |-> ""]

ReturnErr(error) ==
    [end |-> "Err", assignment |-> NoAssignment,
     basis_set |-> NewAtomicBasisSet, error |-> error]

NoReturn == [Running EXCEPT !.end = "no return"]

\* An iterator of the caller: its fields, and what its next() calls returned.
NoIterator == [live |-> FALSE, it |-> NewIterator, results |-> <<>>]

(* ------------------------- read_basis_set ----------------------------- *)

\* What the next stream.next() can give.
StreamNext ==
    IF stream.kind = "cursor"
    THEN {IF Len(consumed) < Len(stream.lines)
          THEN OkLine(stream.lines[Len(consumed) + 1])
          ELSE EndOfStream}
    ELSE {EndOfStream, IoError}
         \cup (IF Len(consumed) < MaxLines
               THEN {OkLine(l) : l \in AnyLines}
               ELSE {})

\* read_basis_set up to its first significant line:
\* read_single_basis_set_line, then parse_basis_set_first_line.
ReadHeader ==
    /\ outcome.end = "running"
    /\ pc = "header"
    /\ \E item \in StreamNext :
         LET read == ReadSingleBasisSetLine(item) IN
         /\ consumed' = Append(consumed, item)
         /\ IF read.turn = "continue"
            THEN UNCHANGED <<pc, basis_set_assignment_type, outcome>>
            ELSE IF ~read.result.ok
            THEN /\ outcome' = ReturnErr(read.result.error)
                 /\ UNCHANGED <<pc, basis_set_assignment_type>>
            ELSE LET parsed == ParseBasisSetFirstLine(read.result.val) IN
                 IF parsed.ok
                 THEN /\ basis_set_assignment_type' = parsed.val
                      /\ pc' = "cgto"
                      /\ UNCHANGED outcome
                 ELSE /\ outcome' = ReturnErr(parsed.error)
                      /\ UNCHANGED <<pc, basis_set_assignment_type>>
    /\ UNCHANGED <<stream, cgto_declaration, basis_set_data, basis_set, added, iters, conversion>>

\* The end of one CGTO block: add_basis_set_cgto, then back to the head of
\* the while loop.
EndBlock(declaration, data) ==
    LET call == AddBasisSetCgto(basis_set, declaration.angular_momentum, data) IN
    IF call.end = "return"
    THEN /\ basis_set' = call.basis_set
         /\ pc' = "cgto"
         /\ UNCHANGED outcome
    ELSE /\ outcome' = [Running EXCEPT !.end = call.end]
         /\ UNCHANGED <<basis_set, pc>>

\* read_basis_set at the head of its while loop: the next significant line
\* ends the parse or declares a CGTO.
ReadCgto ==
    /\ outcome.end = "running"
    /\ pc = "cgto"
    /\ \E item \in StreamNext :
         LET read == ReadSingleBasisSetLine(item) IN
         /\ consumed' = Append(consumed, item)
         /\ IF read.turn = "continue"
            THEN UNCHANGED <<pc, cgto_declaration, basis_set_data, basis_set, outcome>>
            ELSE IF ~read.result.ok
            THEN /\ outcome' = ReturnErr(read.result.error)
                 /\ UNCHANGED <<pc, cgto_declaration, basis_set_data, basis_set>>
            ELSE IF ~read.result.val.some
            THEN /\ outcome' = ReturnOk(basis_set_assignment_type, basis_set)
                 /\ UNCHANGED <<pc, cgto_declaration, basis_set_data, basis_set>>
            ELSE LET parsed == ParseCgtoFirstLine(read.result.val) IN
                 IF ~parsed.ok
                 THEN /\ outcome' = ReturnErr(parsed.error)
                      /\ UNCHANGED <<pc, cgto_declaration, basis_set_data, basis_set>>
                 ELSE /\ cgto_declaration' = parsed.val
                      /\ basis_set_data' = <<>>
                      /\ IF parsed.val.num_gaussian_primitives > 0
                         THEN /\ pc' = "primitive"
                              /\ UNCHANGED <<basis_set, outcome>>
                         ELSE EndBlock(parsed.val, <<>>)
    /\ UNCHANGED <<stream, basis_set_assignment_type, added, iters, conversion>>

\* One turn of `for _ in 0..cgto_declaration.1`: the next significant line
\* is a line of floats; after the last one the block is added.
ReadPrimitive ==
    /\ outcome.end = "running"
    /\ pc = "primitive"
    /\ \E item \in StreamNext :
         LET read == ReadSingleBasisSetLine(item) IN
         /\ consumed' = Append(consumed, item)
         /\ IF read.turn = "continue"
            THEN UNCHANGED <<pc, basis_set_data, basis_set, outcome>>
            ELSE IF ~read.result.ok
            THEN /\ outcome' = ReturnErr(read.result.error)
                 /\ UNCHANGED <<pc, basis_set_data, basis_set>>
            ELSE LET parsed == ParseFloats(read.result.val) IN
                 IF ~parsed.ok
                 THEN /\ outcome' = ReturnErr(parsed.error)
                      /\ UNCHANGED <<pc, basis_set_data, basis_set>>
                 ELSE LET data == Append(basis_set_data, parsed.val) IN
                      /\ basis_set_data' = data
                      /\ IF Len(data) < cgto_declaration.num_gaussian_primitives
                         THEN UNCHANGED <<pc, basis_set, outcome>>
                         ELSE EndBlock(cgto_declaration, data)
    /\ UNCHANGED <<stream, basis_set_assignment_type, cgto_declaration, added, iters, conversion>>

\* No AngularMomentum::from call has been made.
NoConversion == [ch |-> "", us |-> 0, from_char |-> <<>>, from_usize |-> <<>>]

Cursor(lines) == [kind |-> "cursor", lines |-> lines]

AnyStream == [kind |-> "any", lines |-> <<>>]

\* read_basis_set is called on the carbon block, or on any line source.
Init ==
    /\ stream \in {Cursor(CARBON_BASIS_SET), AnyStream}
    /\ consumed = <<>>
    /\ pc = "header"
    /\ basis_set_assignment_type = NoAssignment
    /\ cgto_declaration = NoDeclaration
    /\ basis_set_data = <<>>
    /\ basis_set = NewAtomicBasisSet
    /\ outcome = Running
    /\ added = <<>>
    /\ iters = [i \in IterIds |-> NoIterator]
    /\ conversion = NoConversion

Next == ReadHeader \/ ReadCgto \/ ReadPrimitive

Spec == Init /\ [][Next]_vars

(* ------------------ read_basis_set on a given stream ------------------ *)

\* read_single_basis_set_line on the stream `items` from item i on: what it
\* returns, and the item the stream stands at afterwards.  A stream with
\* no item left gives the end of the stream.
RECURSIVE ReadSingleBasisSetLineFrom(_, _)
ReadSingleBasisSetLineFrom(items, i) ==
    IF i > Len(items)
    THEN [result |-> ReadSingleBasisSetLine(EndOfStream).result, next |-> i]
    ELSE LET read == ReadSingleBasisSetLine(items[i]) IN
         IF read.turn = "continue"
         THEN ReadSingleBasisSetLineFrom(items, i + 1)
         ELSE [result |-> read.result, next |-> i + 1]

\* `for _ in 0..count`: the primitive lines still to read into data.
RECURSIVE ReadPrimitivesFrom(_, _, _, _)
ReadPrimitivesFrom(items, i, count, data) ==
    IF Len(data) >= count
    THEN [ok |-> TRUE, data |-> data, next |-> i, error |-> ""]
    ELSE LET read == ReadSingleBasisSetLineFrom(items, i) IN
         IF ~read.result.ok
         THEN [ok |-> FALSE, data |-> data, next |-> read.next,
               error |-> read.result.error]
         ELSE LET parsed == ParseFloats(read.result.val) IN
              IF ~parsed.ok
              THEN [ok |-> FALSE, data |-> data, next |-> read.next,
                    error |-> parsed.error]
              ELSE ReadPrimitivesFrom(items, read.next, count,
                                      Append(data, parsed.val))

\* The while loop of read_basis_set, entered with the stream at item i.
RECURSIVE ReadCgtosFrom(_, _, _, _)
ReadCgtosFrom(items, i, assignment, set) ==
    LET read == ReadSingleBasisSetLineFrom(items, i) IN
    IF ~read.result.ok
    THEN ReturnErr(read.result.error)
    ELSE IF ~read.result.val.some
    THEN ReturnOk(assignment, set)
    ELSE LET parsed == ParseCgtoFirstLine(read.result.val) IN
         IF ~parsed.ok
         THEN ReturnErr(parsed.error)
         ELSE LET lines == ReadPrimitivesFrom(items, read.next,
                               parsed.val.num_gaussian_primitives, <<>>)
              IN IF ~lines.ok
                 THEN ReturnErr(lines.error)
                 ELSE LET call == AddBasisSetCgto(set, parsed.val.angular_momentum,
                                                  lines.data)
                      IN IF call.end # "return"
                         THEN [Running EXCEPT !.end = call.end]
                         ELSE ReadCgtosFrom(items, lines.next, assignment,
                                            call.basis_set)

\* read_basis_set on the stream `items`: how the call ends.
ReadBasisSet(items) ==
    LET read == ReadSingleBasisSetLineFrom(items, 1) IN
    IF ~read.result.ok
    THEN ReturnErr(read.result.error)
    ELSE LET parsed == ParseBasisSetFirstLine(read.result.val) IN
         IF ~parsed.ok
         THEN ReturnErr(parsed.error)
         ELSE ReadCgtosFrom(items, read.next, parsed.val, NewAtomicBasisSet)

(* ---------------------- a caller of AtomicBasisSet --------------------- *)

\* The caller calls add_segmented_contraction.  An iterator borrows the
\* set, so no call is made while one is alive.
AddContraction ==
    /\ outcome.end = "running"
    /\ pc = "caller"
    /\ Len(added) < MaxAdds
    /\ \A i \in IterIds : ~iters[i].live
    /\ \E momentum \in AngularMomentum, contraction \in SampleContractions :
         LET call == AddSegmentedContraction(basis_set, momentum, contraction) IN
         /\ added' = Append(added, [momentum |-> momentum, contraction |-> contraction])
         /\ IF call.returns
            THEN /\ basis_set' = call.set
                 /\ UNCHANGED outcome
            ELSE /\ outcome' = NoReturn
                 /\ UNCHANGED basis_set
    /\ UNCHANGED <<parserVars, iters, conversion>>

\* The caller calls (&basis_set).into_iter().
IntoIter ==
    /\ outcome.end = "running"
    /\ pc = "caller"
    /\ \E i \in IterIds :
         /\ ~iters[i].live
         /\ iters' = [iters EXCEPT ![i] =
                         [live |-> TRUE, it |-> NewIterator, results |-> <<>>]]
    /\ UNCHANGED <<parserVars, basis_set, outcome, added, conversion>>

NoneCalls(results) == Len(SelectSeq(results, LAMBDA r : ~r.some))

\* next() with one position shared by all the live iterators.
IterNextSharedCursor ==
    /\ outcome.end = "running"
    /\ pc = "caller"
    /\ \E i \in IterIds :
         /\ iters[i].live
         /\ NoneCalls(iters[i].results) < MaxNoneCalls
         /\ LET step == IteratorNext(basis_set, iters[i].it) IN
            iters' = [j \in IterIds |->
                         IF j = i
                         THEN [live |-> TRUE, it |-> step.it,
                               results |-> Append(iters[i].results, step.result)]
                         ELSE [iters[j] EXCEPT !.it = step.it]]
    /\ UNCHANGED <<parserVars, basis_set, outcome, added, conversion>>

\* The caller calls next() on one of its iterators.
IterNext ==
    /\ outcome.end = "running"
    /\ pc = "caller"
    /\ \E i \in IterIds :
         /\ iters[i].live
         /\ NoneCalls(iters[i].results) < MaxNoneCalls
         /\ LET step == IteratorNext(basis_set, iters[i].it) IN
            iters' = [iters EXCEPT ![i] =
                         [live |-> TRUE, it |-> step.it,
                          results |-> Append(iters[i].results, step.result)]]
    /\ UNCHANGED <<parserVars, basis_set, outcome, added, conversion>>

\* A caller starts from AtomicBasisSet::new().
InitSet ==
    /\ stream = AnyStream
    /\ consumed = <<>>
    /\ pc = "caller"
    /\ basis_set_assignment_type = NoAssignment
    /\ cgto_declaration = NoDeclaration
    /\ basis_set_data = <<>>
    /\ basis_set = NewAtomicBasisSet
    /\ outcome = Running
    /\ added = <<>>
    /\ iters = [i \in IterIds |-> NoIterator]
    /\ conversion = NoConversion

NextSet == AddContraction \/ IntoIter \/ IterNext

SpecSet == InitSet /\ [][NextSet]_vars

-----------------------------------------------------------------------------
\* A caller of the AngularMomentum conversions.

\* The characters and indices the conversions are called with.
MaxUsize == 8

ConversionChars ==
    {"S", "P", "D", "F", "G", "H", "s", "p", "d", "f", "g", "h",
     "T", "t", "I", "i", "x", "0", "5", "*", " "}

\* The caller evaluates AngularMomentum::from(ch).
ConvertChar ==
    /\ pc = "caller"
    /\ conversion.from_char = <<>>
    /\ conversion' = [conversion EXCEPT !.from_char = <<FromChar(conversion.ch)>>]
    /\ UNCHANGED <<parserVars, basis_set, outcome, added, iters>>

\* The caller evaluates AngularMomentum::from(us).
ConvertUsize ==
    /\ pc = "caller"
    /\ conversion.from_usize = <<>>
    /\ conversion' = [conversion EXCEPT !.from_usize = <<FromUsize(conversion.us)>>]
    /\ UNCHANGED <<parserVars, basis_set, outcome, added, iters>>

InitConv ==
    /\ stream = AnyStream
    /\ consumed = <<>>
    /\ pc = "caller"
    /\ basis_set_assignment_type = NoAssignment
    /\ cgto_declaration = NoDeclaration
    /\ basis_set_data = <<>>
    /\ basis_set = NewAtomicBasisSet
    /\ outcome = Running
    /\ added = <<>>
    /\ iters = [i \in IterIds |-> NoIterator]
    /\ \E ch \in ConversionChars, us \in 0..MaxUsize :
         conversion = [ch |-> ch, us |-> us, from_char |-> <<>>, from_usize |-> <<>>]

NextConv == ConvertChar \/ ConvertUsize

SpecConv == InitConv /\ [][NextConv]_vars

(* ------------------- the input, as the grammar reads it ---------------- *)

IsBlankText(text) == \A i \in 1..Len(text) : IsWhitespace(text[i])

IsCommentText(text) == text # <<>> /\ text[1] = "!"

IsSentinelText(text) == Len(text) >= 4 /\ \A i \in 1..4 : text[i] = "*"

\* A line that is neither blank, a comment, nor the sentinel.
IsSignificant(item) ==
    /\ item.tag = "line"
    /\ ~IsBlankText(item.text)
    /\ ~IsCommentText(item.text)
    /\ ~IsSentinelText(item.text)

\* The sentinel line, or the end of the stream.
IsEnd(item) ==
    \/ item.tag = "end"
    \/ item.tag = "line" /\ ~IsCommentText(item.text) /\ IsSentinelText(item.text)

\* A blank line or a comment.
IsSkipped(item) ==
    item.tag = "line" /\ (IsBlankText(item.text) \/ IsCommentText(item.text))

\* The significant lines read so far, in order.
SignificantLines ==
    LET sig == SelectSeq(consumed, IsSignificant) IN
    [i \in 1..Len(sig) |-> sig[i].text]

Last(seq) == seq[Len(seq)]

Ended == outcome.end # "running"

\* The CGTO blocks of the significant lines sig from line i on: a
\* declaration `code count`, then max(count, 0) primitive lines.
RECURSIVE DeclaredBlocks(_, _)
DeclaredBlocks(sig, i) ==
    IF i > Len(sig)
    THEN <<>>
    ELSE LET tokens == SplitWhitespace(sig[i])
             count  == ParseI32(tokens[2]).val
             lines  == IF count > 0 THEN count ELSE 0
         IN <<[code |-> tokens[1], count |-> count,
               lines |-> SubSeq(sig, i + 1, i + lines)]>>
            \o DeclaredBlocks(sig, i + lines + 1)

\* A line that declares a CGTO: two tokens at least, the second an i32.
IsDeclaration(text) ==
    LET tokens == SplitWhitespace(text) IN
    Len(tokens) >= 2 /\ ParseI32(tokens[2]).ok

DeclarationOf(text) ==
    LET tokens == SplitWhitespace(text) IN
    [angular_momentum |-> tokens[1],
     num_gaussian_primitives |-> ParseI32(tokens[2]).val]

\* The position, in the grammar header (cgto primitive*)*, of the n-th
\* significant line, found from the declaration at line i on: "cgto" for
\* a declaration, "primitive" for one of the lines a declaration counts,
\* "none" after a line that declares nothing.
RECURSIVE PositionFrom(_, _, _)
PositionFrom(sig, i, n) ==
    IF i = n THEN "cgto"
    ELSE IF ~IsDeclaration(sig[i]) THEN "none"
    ELSE LET count == DeclarationOf(sig[i]).num_gaussian_primitives
             lines == IF count > 0 THEN count ELSE 0
         IN IF n <= i + lines
            THEN "primitive"
            ELSE PositionFrom(sig, i + lines + 1, n)

PositionOf(n) == IF n = 1 THEN "header" ELSE PositionFrom(SignificantLines, 2, n)

\* Where the last significant line read stands, and where the line after
\* it would.
LastPosition == PositionOf(Len(SignificantLines))

NextPosition == PositionOf(Len(SignificantLines) + 1)

\* The blocks after the header line.
Blocks == DeclaredBlocks(SignificantLines, 2)

RECURSIVE SumSeq(_)
SumSeq(seq) == IF seq = <<>> THEN 0 ELSE Head(seq) + SumSeq(Tail(seq))

MomentumLetters == {"S", "P", "D", "F", "G", "H", "s", "p", "d", "f", "g", "h"}

OnlyMomentumLetters(code) == \A i \in 1..Len(code) : code[i] \in MomentumLetters

\* An iterator's items as <<momentum, number of primitives>>.
Shape(items) ==
    [k \in 1..Len(items) |-> <<items[k].momentum, GetNumPrimitives(items[k].contraction)>>]

CarbonParsed == stream.kind = "cursor" /\ outcome.end = "Ok"

(* ------------------------------ claims -------------------------------- *)

\* C1: when read_basis_set succeeds on a stream whose momentum codes use
\* only the letters S,P,D,F,G,H (any case), the returned set's
\* get_num_contracted_functions() is the sum of the code lengths of the
\* blocks and its get_num_gaussian_primitives() is the sum of
\* max(count, 0) * code length; the carbon block gives 7 and 16.
C1_Counts ==
    /\ (outcome.end = "Ok"
        /\ \A b \in 1..Len(Blocks) : OnlyMomentumLetters(Blocks[b].code))
       => /\ GetNumContractedFunctions(outcome.basis_set)
               = SumSeq([b \in 1..Len(Blocks) |-> Len(Blocks[b].code)])
          /\ GetNumGaussianPrimitives(outcome.basis_set)
               = SumSeq([b \in 1..Len(Blocks) |->
                            Len(Blocks[b].lines) * Len(Blocks[b].code)])
    /\ CarbonParsed
       => /\ GetNumContractedFunctions(outcome.basis_set) = 7
          /\ GetNumGaussianPrimitives(outcome.basis_set) = 16

\* C1's case: an arbitrary stream parsed to its end with two blocks or
\* more, one of them with primitive lines.
C1_Witness ==
    /\ stream.kind = "any"
    /\ outcome.end = "Ok"
    /\ Len(Blocks) >= 2
    /\ \E b \in 1..Len(Blocks) : Blocks[b].count >= 1
    /\ GetNumContractedFunctions(outcome.basis_set) >= 2
    /\ GetNumGaussianPrimitives(outcome.basis_set) >= 1

\* The order a fresh iterator must follow: level after level in ascending
\* order, each level's contractions in the order of the calls that added
\* them.
LevelItems(log, momentum) ==
    LET at == SelectSeq(log, LAMBDA e : e.momentum = momentum) IN
    [k \in 1..Len(at) |-> SomeItem(momentum, at[k].contraction)]

ExpectedOrder(log) ==
    LevelItems(log, S) \o LevelItems(log, P) \o LevelItems(log, D)
    \o LevelItems(log, F) \o LevelItems(log, G) \o LevelItems(log, H)

\* C2: on a set built by add_segmented_contraction calls with momenta in
\* S..H, an iterator returns every stored contraction once,
\* get_num_contracted_functions() pairs in all, by ascending momentum and
\* within a level in the order added, each tagged with its level, and
\* after the last pair returns None on every call.
C2_IterationOrder ==
    \A i \in IterIds :
        iters[i].live =>
            LET expected == ExpectedOrder(added)
                results  == iters[i].results
            IN /\ Len(expected) = Len(added)
               /\ Len(expected) = GetNumContractedFunctions(basis_set)
               /\ \A k \in 1..Len(results) :
                    results[k] = IF k <= Len(expected) THEN expected[k] ELSE NoItem

\* C2's case: a level was added before a lower one, and an iterator has
\* returned every pair and then None twice.
C2_Witness ==
    /\ Len(added) >= 2
    /\ added[1].momentum > added[2].momentum
    /\ added[1].contraction # added[2].contraction
    /\ \E i \in IterIds :
         /\ iters[i].live
         /\ Len(iters[i].results) = Len(added) + 2

\* C3 as stated: iterating the set parsed from the carbon block yields
\* S(6), S(1), S(1), P(3), P(1), P(1) and nothing else.
C3_SixItems ==
    CarbonParsed =>
        Shape(IntoIterAll(outcome.basis_set))
            = << <<S, 6>>, <<S, 1>>, <<S, 1>>, <<P, 3>>, <<P, 1>>, <<P, 1>> >>

\* C3, amended: iterating the set parsed from the carbon block yields
\* seven pairs: the S block (6 primitives), the S contractions of the
\* three SP blocks (3, 1, 1), then their P contractions (3, 1, 1).
C3_SevenItems ==
    CarbonParsed =>
        Shape(IntoIterAll(outcome.basis_set))
            = << <<S, 6>>, <<S, 3>>, <<S, 1>>, <<S, 1>>,
                 <<P, 3>>, <<P, 1>>, <<P, 1>> >>

\* C3's case: the carbon block was parsed to its sentinel.
C3_Witness ==
    /\ CarbonParsed
    /\ Len(consumed) = Len(CARBON_BASIS_SET)
    /\ Len(IntoIterAll(outcome.basis_set)) = 7

\* C4: a block whose momentum code holds a character outside S,P,D,F,G,H
\* (with a count of 1 or more, as 'T 1') does not make read_basis_set fail
\* or diverge: once the block's lines are read the parse goes on, or has
\* returned Ok.
C4_UnsupportedPassesThrough ==
    (/\ cgto_declaration # NoDeclaration
     /\ ~OnlyMomentumLetters(cgto_declaration.angular_momentum)
     /\ cgto_declaration.num_gaussian_primitives >= 1
     /\ Len(basis_set_data) >= cgto_declaration.num_gaussian_primitives)
    => outcome.end \in {"running", "Ok"}

\* The assignment the first token of the first significant line stands for.
HeaderTarget ==
    LET token == SplitWhitespace(SignificantLines[1])[1] IN
    IF ParseI32(token).ok THEN ParticleIndex(ParseI32(token).val) ELSE Atom(token)

\* C5: the assignment target is decided by the first whitespace token of
\* the first significant line alone: ParticleIndex(n) when it parses as
\* an i32, else Atom(token) verbatim; '1 0' gives ParticleIndex(1), 'C 0'
\* gives Atom("C").
C5_AssignmentTarget ==
    /\ basis_set_assignment_type # NoAssignment
       => /\ basis_set_assignment_type = HeaderTarget
          /\ SignificantLines[1] = Line10
             => basis_set_assignment_type = ParticleIndex(1)
          /\ SignificantLines[1] = LineFloatsX
             => basis_set_assignment_type = ParticleIndex(1)
          /\ SignificantLines[1] = LineC0
             => basis_set_assignment_type = Atom(<<"C">>)
          /\ SignificantLines[1] = LineBig
             => basis_set_assignment_type = Atom(SubSeq(LineBig, 1, 10))
    /\ outcome.end = "Ok" => outcome.assignment = HeaderTarget

\* C5's case: a parse returned a particle index read from a header with
\* three tokens.
C5_Witness ==
    /\ outcome.end = "Ok"
    /\ SignificantLines[1] = LineFloatsX
    /\ outcome.assignment = ParticleIndex(1)

\* C6: when only blank lines and comments come before the first sentinel
\* or the end of the stream, read_basis_set fails with 'Bad basis set'
\* and returns no basis set.
C6_MissingHeader ==
    (/\ consumed # <<>>
     /\ IsEnd(Last(consumed))
     /\ \A k \in 1..(Len(consumed) - 1) : IsSkipped(consumed[k]))
    => outcome = ReturnErr("Bad basis set")

\* C6's case: a comment, a blank line, then the sentinel.
C6_Witness ==
    /\ Len(consumed) = 3
    /\ IsSkipped(consumed[1]) /\ IsSkipped(consumed[2])
    /\ consumed[1] # consumed[2]
    /\ consumed[3] = OkLine(LineSentinel)
    /\ outcome.error = "Bad basis set"

\* C7: in a block with count >= 1 (here: one whose code holds momentum
\* letters only), a primitive line with fewer tokens than the code's
\* length + 1 makes read_basis_set return Err.
C7_ShortLineIsError ==
    (/\ Ended
     /\ pc = "primitive"
     /\ OnlyMomentumLetters(cgto_declaration.angular_momentum)
     /\ \E g \in 1..Len(basis_set_data) :
          Len(basis_set_data[g]) < Len(cgto_declaration.angular_momentum) + 1)
    => outcome.end = "Err"

IsFloatLine(text) ==
    LET tokens == SplitWhitespace(text) IN
    \A i \in 1..Len(tokens) : ParseF64(tokens[i]).ok

\* C8: a primitive line holding a token that is no float, in any column,
\* makes read_basis_set fail with a parse error and return no set,
\* whatever was parsed before.
C8_NonNumericToken ==
    (/\ consumed # <<>>
     /\ IsSignificant(Last(consumed))
     /\ LastPosition = "primitive"
     /\ ~IsFloatLine(Last(consumed).text))
    => outcome = ReturnErr("invalid float literal")

\* C8's case: after a block was stored, a primitive line whose two used
\* columns are floats and whose third is not.
C8_Witness ==
    /\ Ended
    /\ pc = "primitive"
    /\ Last(consumed) = OkLine(LineFloatsX)
    /\ Len(cgto_declaration.angular_momentum) = 1
    /\ GetNumContractedFunctions(basis_set) >= 1
    /\ outcome.end = "Err"

\* C9: when the sentinel or the end of the stream comes before the
\* declared number of primitive lines, read_basis_set fails with
\* 'Expecting line of floats' and completes no shorter contraction.
C9_MissingPrimitiveLine ==
    (/\ consumed # <<>>
     /\ IsEnd(Last(consumed))
     /\ NextPosition = "primitive")
    => /\ outcome = ReturnErr("Expecting line of floats")
       /\ Len(basis_set_data) < cgto_declaration.num_gaussian_primitives

\* C9's case: one of two declared primitive lines was read before the
\* sentinel.
C9_Witness ==
    /\ Ended
    /\ pc = "primitive"
    /\ Last(consumed) = OkLine(LineSentinel)
    /\ Len(basis_set_data) = 1
    /\ cgto_declaration.num_gaussian_primitives = 2
    /\ outcome.error = "Expecting line of floats"

\* C10: a significant line in declaration position whose second token is
\* missing or no i32 makes read_basis_set fail with a parse error (' S '
\* does); a line with both gives (first token, value of the second) and
\* its further tokens are ignored.
C10_CgtoDeclaration ==
    (/\ consumed # <<>>
     /\ IsSignificant(Last(consumed))
     /\ LastPosition = "cgto")
    => LET text == Last(consumed).text IN
       /\ outcome.end = "Err" <=> ~IsDeclaration(text)
       /\ text = LineS => outcome.end = "Err"
       /\ IsDeclaration(text) => cgto_declaration = DeclarationOf(text)

\* C10's case: the carbon block's 'SP   3   1.00' was read as ("SP", 3).
C10_Witness ==
    /\ stream.kind = "cursor"
    /\ consumed # <<>>
    /\ IsSignificant(Last(consumed))
    /\ LastPosition = "cgto"
    /\ Len(SplitWhitespace(Last(consumed).text)) = 3
    /\ cgto_declaration = [angular_momentum |-> <<"S", "P">>,
                           num_gaussian_primitives |-> 3]

\* The momenta of the calls logged, and the highest of them.
AddedMomenta == {added[k].momentum : k \in 1..Len(added)}

HighestAdded == CHOOSE m \in AddedMomenta : \A n \in AddedMomenta : n <= m

\* C11: after add_segmented_contraction calls with momenta in S..H on a
\* new set, the slots are dense: 1 + the highest momentum added of them
\* (none when nothing was added), the levels never added to are empty,
\* and get_highest_angular_momentum() is Unsupported exactly when nothing
\* was added and else the highest momentum added; one add at D leaves S
\* and P empty and the highest D; a new set counts 0 contracted functions
\* and 0 primitives.
C11_DenseSlots ==
    AddedMomenta \subseteq Supported =>
        /\ Len(basis_set) = IF added = <<>> THEN 0 ELSE 1 + HighestAdded
        /\ \A m \in Supported :
             (m < Len(basis_set) /\ m \notin AddedMomenta) => basis_set[m + 1] = <<>>
        /\ GetHighestAngularMomentum(basis_set) =
             IF added = <<>> THEN UnsupportedAngularMomentum ELSE HighestAdded
        /\ (GetHighestAngularMomentum(basis_set) = UnsupportedAngularMomentum)
             <=> added = <<>>
        /\ (Len(added) = 1 /\ added[1].momentum = D)
             => /\ basis_set = << <<>>, <<>>, <<added[1].contraction>> >>
                /\ GetHighestAngularMomentum(basis_set) = D
        /\ added = <<>>
             => /\ GetNumContractedFunctions(basis_set) = 0
                /\ GetNumGaussianPrimitives(basis_set) = 0

\* C11's case: one contraction with primitives was added at D to a new
\* set.
C11_Witness ==
    /\ Len(added) = 1
    /\ added[1].momentum = D
    /\ added[1].contraction # <<>>
    /\ Len(basis_set) = 3
    /\ basis_set[1] = <<>> /\ basis_set[2] = <<>>

\* Two iterations over the same set agree item by item as far as both
\* have gone.
SameIteration(first, second) ==
    \A k \in 1..Len(first) : k <= Len(second) => first[k] = second[k]

\* A step of one iterator moves no other iterator.
IteratorsIndependent ==
    \A i \in IterIds : \A j \in IterIds \ {i} :
        iters'[i] # iters[i] => iters'[j] = iters[j]

\* C12: a step that is no add (into_iter, next on any iterator) leaves the
\* stored contractions as they are, so the aggregate queries return the
\* same values before and after it; a next() on one iterator moves no
\* other iterator; and two iterations of the same set, interleaved in any
\* way, yield the same sequence.
C12_ReadsChangeNothing ==
    /\ [][added' = added =>
            /\ basis_set' = basis_set
            /\ GetNumContractedFunctions(basis_set') = GetNumContractedFunctions(basis_set)
            /\ GetNumGaussianPrimitives(basis_set') = GetNumGaussianPrimitives(basis_set)
            /\ GetHighestAngularMomentum(basis_set') = GetHighestAngularMomentum(basis_set)
            /\ IteratorsIndependent]_vars
    /\ [](\A i \in IterIds : \A j \in IterIds :
            SameIteration(iters[i].results, iters[j].results))

\* C12's case: two iterators over a set of two contractions, one of them
\* past the end, the other stopped after the first item.
C12_Witness ==
    /\ GetNumContractedFunctions(basis_set) = 2
    /\ iters["first"].live /\ iters["second"].live
    /\ Len(iters["first"].results) = 3
    /\ ~iters["first"].results[3].some
    /\ Len(iters["second"].results) = 1
    /\ iters["second"].results[1].some

\* The letters of the momenta S..H, by discriminant.
UpperLetters == <<"S", "P", "D", "F", "G", "H">>

LowerLetters == <<"s", "p", "d", "f", "g", "h">>

\* C13: from(char) gives the level of the letters S, P, D, F, G, H in
\* either case and Unsupported for every other character; from(usize)
\* gives S..H for 0..5 and Unsupported above 5; a supported momentum
\* converted to its discriminant and back is itself, and a letter and the
\* discriminant of its level convert to the same momentum.
C13_Conversions ==
    /\ conversion.from_char # <<>> =>
         LET m == conversion.from_char[1] IN
         /\ \A k \in 1..6 :
              conversion.ch \in {UpperLetters[k], LowerLetters[k]} => m = k - 1
         /\ (\A k \in 1..6 : conversion.ch \notin {UpperLetters[k], LowerLetters[k]})
              => m = UnsupportedAngularMomentum
         /\ m \in Supported => FromUsize(AsUsize(m).low) = m
    /\ conversion.from_usize # <<>> =>
         LET m == conversion.from_usize[1] IN
         /\ conversion.us <= 5 => m = conversion.us
         /\ conversion.us > 5 => m = UnsupportedAngularMomentum
         /\ m \in Supported =>
              /\ ~AsUsize(m).ones
              /\ FromUsize(AsUsize(m).low) = m
              /\ FromChar(UpperLetters[AsUsize(m).low + 1]) = m
              /\ FromChar(LowerLetters[AsUsize(m).low + 1]) = m

\* C13's case: a lower-case letter and an index above 5 were converted.
C13_Witness ==
    /\ conversion.ch = "h" /\ conversion.from_char = <<H>>
    /\ conversion.us = 6 /\ conversion.from_usize = <<UnsupportedAngularMomentum>>

\* The stream items with item put in after its first k items.
InsertAt(items, k, item) ==
    SubSeq(items, 1, k) \o <<item>> \o SubSeq(items, k + 1, Len(items))

\* C14: a blank or whitespace-only line, or a line starting with '!', put
\* in anywhere before the item that ended a call of read_basis_set leaves
\* the result of the call as it is: the same target and set, the same
\* error, the same failure to return.
C14_SkippedLinesChangeNothing ==
    Ended =>
        /\ ReadBasisSet(consumed) = outcome
        /\ \A k \in 0..(Len(consumed) - 1) :
             \A text \in {LineBlank, LineComment} :
                ReadBasisSet(InsertAt(consumed, k, OkLine(text))) = outcome

\* C14's case: a parse that read primitive lines and returned a set with
\* primitives, so that lines can be put in before the header, inside the
\* block and before the end.
C14_Witness ==
    /\ outcome.end = "Ok"
    /\ stream.kind = "any"
    /\ GetNumGaussianPrimitives(outcome.basis_set) >= 1
    /\ ReadBasisSet(InsertAt(consumed, 2, OkLine(LineComment))) = outcome

\* C15: when stream.next() gives a read failure, at whatever position,
\* read_basis_set returns a parse error at once: the failed read is the
\* last item it asked for, and it returns no basis set.
C15_ReadFailureEndsParse ==
    \A k \in 1..Len(consumed) :
        consumed[k] = IoError =>
            /\ k = Len(consumed)
            /\ outcome = ReturnErr("io error")
            /\ outcome.basis_set = NewAtomicBasisSet

\* C15's case: the read failed in the middle of a block, after a skipped
\* line, with a declaration and a primitive line already parsed.
C15_Witness ==
    /\ Len(consumed) >= 4
    /\ Last(consumed) = IoError
    /\ NextPosition = "primitive"
    /\ basis_set_data # <<>>
    /\ outcome.end = "Err"

\* The significant lines among items, and the position of the last of
\* them in the grammar.
SignificantLinesOf(items) ==
    LET sig == SelectSeq(items, IsSignificant) IN
    [i \in 1..Len(sig) |-> sig[i].text]

LastPositionOf(items) ==
    LET sig == SignificantLinesOf(items) IN
    IF Len(sig) = 1 THEN "header" ELSE PositionFrom(sig, 2, Len(sig))

\* The level of a momentum letter, read off the letters by discriminant.
LetterLevel(ch) ==
    CHOOSE m \in Supported : ch \in {UpperLetters[m + 1], LowerLetters[m + 1]}

\* The contractions of set at level m; none where the set has no slot.
LevelOf(set, m) == IF m < Len(set) THEN set[m + 1] ELSE <<>>

\* One empty contraction for each letter of code that stands for level m.
RECURSIVE EmptyContractions(_, _)
EmptyContractions(code, m) ==
    IF code = <<>>
    THEN <<>>
    ELSE (IF LetterLevel(Head(code)) = m THEN << <<>> >> ELSE <<>>)
         \o EmptyContractions(Tail(code), m)

\* The line just read is a declaration, in declaration position, of
\* momentum letters with a count of zero or less.
ReadsEmptyDeclaration ==
    /\ consumed' # consumed
    /\ IsSignificant(Last(consumed'))
    /\ LastPositionOf(consumed') = "cgto"
    /\ IsDeclaration(Last(consumed').text)
    /\ DeclarationOf(Last(consumed').text).num_gaussian_primitives <= 0
    /\ OnlyMomentumLetters(DeclarationOf(Last(consumed').text).angular_momentum)

ItemOf(lines, k) == IF k <= Len(lines) THEN OkLine(lines[k]) ELSE EndOfStream

\* C17: read_basis_set takes the items of the source in order, one at a
\* time, and stops at the first sentinel or end of stream it meets: no
\* item is asked for after it; met in declaration position it makes the
\* call return Ok with the target of the header and the set built so far,
\* and met directly after the header it gives the empty set: 0 contracted
\* functions, highest momentum Unsupported.
C17_StopsAtEndOfBlock ==
    /\ \A k \in 1..Len(consumed) :
         /\ stream.kind = "cursor" => consumed[k] = ItemOf(stream.lines, k)
         /\ IsEnd(consumed[k]) => k = Len(consumed)
    /\ (consumed # <<>> /\ IsEnd(Last(consumed)) /\ NextPosition = "cgto")
         => /\ outcome.end = "Ok"
            /\ outcome.assignment = HeaderTarget
            /\ outcome.basis_set = basis_set
            /\ Len(SignificantLines) = 1
                 => /\ outcome.basis_set = NewAtomicBasisSet
                    /\ GetNumContractedFunctions(outcome.basis_set) = 0
                    /\ GetHighestAngularMomentum(outcome.basis_set)
                         = UnsupportedAngularMomentum

\* C17's case: the sentinel directly after the header, on a source that
\* had more lines to give: the call returned Ok with the empty set.
C17_Witness ==
    /\ stream.kind = "any"
    /\ consumed = <<OkLine(LineC0), OkLine(LineSentinel)>>
    /\ outcome = ReturnOk(Atom(<<"C">>), NewAtomicBasisSet)

\* The number a token of a primitive line spells.
NumberOf(token) == ParseF64(token).val

\* The contraction a block gives for the i-th letter of its code: one
\* primitive per line of the block, in line order, of the line's first
\* token and its token i + 1.
ExpectedContraction(block, i) ==
    [j \in 1..Len(block.lines) |->
        LET tokens == SplitWhitespace(block.lines[j]) IN
        [coefficient |-> NumberOf(tokens[1]), exponental |-> NumberOf(tokens[i + 1])]]

\* The contractions a block gives at level m, from its i-th letter on.
RECURSIVE BlockContractions(_, _, _)
BlockContractions(block, m, i) ==
    IF i > Len(block.code)
    THEN <<>>
    ELSE (IF LetterLevel(block.code[i]) = m
          THEN <<ExpectedContraction(block, i)>>
          ELSE <<>>)
         \o BlockContractions(block, m, i + 1)

\* The contractions the blocks give at level m, in block order.
RECURSIVE BlocksContractions(_, _)
BlocksContractions(blocks, m) ==
    IF blocks = <<>>
    THEN <<>>
    ELSE BlockContractions(Head(blocks), m, 1) \o BlocksContractions(Tail(blocks), m)

\* C18: in a successful parse each block, of count n and a code of k
\* momentum letters, gives k contractions, the i-th at the level of the
\* i-th letter, each of the block's primitive lines in order, the j-th
\* primitive with the first token of the j-th line as coefficient and
\* its token i + 1 as exponent; tokens after those are not looked at.
\* The set returned holds these contractions, level by level in block
\* order, and nothing else.  On the carbon block the third primitive of
\* the first S contraction has coefficient 154.9730, its fourth exponent
\* 0.2608010, and the third primitive of the first P contraction has
\* coefficient 1.459330 and exponent 0.815854.
C18_BlockContributions ==
    outcome.end = "Ok" =>
        /\ \A m \in Supported :
             LevelOf(outcome.basis_set, m) = BlocksContractions(Blocks, m)
        /\ Len(outcome.basis_set) <= 6
        /\ stream.kind = "cursor" =>
             /\ outcome.basis_set[1][1][3].coefficient = Normalize(154973, -3)
             /\ outcome.basis_set[1][1][4].exponental = Normalize(260801, -6)
             /\ outcome.basis_set[2][1][3].coefficient = Normalize(145933, -5)
             /\ outcome.basis_set[2][1][3].exponental = Normalize(815854, -6)

\* C18's case: a parse of the block 'SP 2' with two lines of three
\* numbers returned a set with an S and a P contraction of two
\* primitives each.
C18_Witness ==
    /\ outcome.end = "Ok"
    /\ stream.kind = "any"
    /\ Len(Blocks) = 1
    /\ Blocks[1].code = <<"S", "P">>
    /\ Blocks[1].count = 2
    /\ Len(outcome.basis_set) = 2
    /\ Len(outcome.basis_set[2][1]) = 2
    /\ outcome.basis_set[2][1][1].exponental = Normalize(3, 0)

\* C19: the set only grows: a call add_segmented_contraction(m, c) with m
\* in S..H returns, leaves every contraction stored before at its level
\* and position, leaves the other levels as they were but for new empty
\* slots below m, puts c last at level m, raises the contracted-function
\* count by 1 and the primitive count by the primitives of c, and does
\* not lower the highest momentum.
C19_AppendOnly ==
    [][(added' # added /\ Last(added').momentum \in Supported) =>
          LET m == Last(added').momentum
              c == Last(added').contraction
          IN
          /\ outcome'.end = "running"
          /\ Len(basis_set') = IF Len(basis_set) > m + 1 THEN Len(basis_set) ELSE m + 1
          /\ \A n \in Supported : \A k \in 1..Len(LevelOf(basis_set, n)) :
               basis_set'[n + 1][k] = basis_set[n + 1][k]
          /\ \A n \in Supported \ {m} : LevelOf(basis_set', n) = LevelOf(basis_set, n)
          /\ LevelOf(basis_set', m) = Append(LevelOf(basis_set, m), c)
          /\ GetNumContractedFunctions(basis_set')
               = GetNumContractedFunctions(basis_set) + 1
          /\ GetNumGaussianPrimitives(basis_set')
               = GetNumGaussianPrimitives(basis_set) + GetNumPrimitives(c)
          /\ GetHighestAngularMomentum(basis_set')
               >= GetHighestAngularMomentum(basis_set)]_vars

\* C19's case: a second contraction added at a level that already held a
\* different contraction.
C19_Witness ==
    /\ Len(added) = 2
    /\ added[1].momentum = S /\ added[2].momentum = S
    /\ added[1].contraction # <<>>
    /\ added[2].contraction # added[1].contraction
    /\ basis_set = << <<added[1].contraction, added[2].contraction>> >>

\* The errors of a missing declaration line and of a line without a
\* token.
NoTokenErrors ==
    {"Expecting CGTO declaration",
     "Expect atom/particle index",
     "Expecting angular momentum and number of Gaussian primitives"}

\* C20: read_basis_set never gives the error 'Expecting CGTO declaration',
\* 'Expect atom/particle index' or 'Expecting angular momentum and number
\* of Gaussian primitives', because a declaration is parsed only from a
\* line that was read and every significant line holds a token.
C20_NoTokenErrorsUnreachable ==
    /\ outcome.error \notin NoTokenErrors
    /\ \A k \in 1..Len(consumed) :
         IsSignificant(consumed[k]) => SplitWhitespace(consumed[k].text) # <<>>

\* C20's case: whitespace-only lines were read in header and in
\* declaration position, a line with blanks around its one token was the
\* header, and the call ended with another error.
C20_Witness ==
    /\ Len(consumed) = 4
    /\ consumed[1] = OkLine(LineBlank)
    /\ consumed[2] = OkLine(LineS)
    /\ consumed[3] = OkLine(LineBlank)
    /\ outcome = ReturnErr("Bad CGTO declaration")

====
